---------------------------- MODULE Spec2Model ----------------------------
(***************************************************************************)
(* A model of the ELM327 driver of src/elm.py: the reader thread (ELM.run),*)
(* the caller threads that invoke the device methods, the serial transport *)
(* and the adapter on its far side.                                        *)
(*                                                                         *)
(* Bytes are one-character strings and byte strings are sequences of them. *)
(* The transport's receive side, rx, is a sequence of chunks: a chunk is   *)
(* either one terminator byte ("\r" or ">") or a run of bytes that holds   *)
(* no terminator.  ELM.run treats every byte that is not the current       *)
(* terminator alike, so reading a run in one step loses no behaviour.      *)
(*                                                                         *)
(* Every statement of a thread that reads or writes a shared attribute is  *)
(* a step of its own; statements that touch only locals are merged into    *)
(* the step before them.  Program counters are named after the source      *)
(* line they are about to execute.                                         *)
(***************************************************************************)
EXTENDS Integers, Sequences, FiniteSets, TLC

VARIABLES
    running,             \* self._running
    monitoring,          \* self.monitoring
    processing_command,  \* self._processing_command
    monitor_callback,    \* self._monitor_callback
    recv_buffer,         \* self._recv_buffer, a FIFO of frames
    header,              \* self._header
    protocol,            \* self.protocol
    serial_open,         \* the serial port is open
    rx,                  \* bytes the adapter has sent and run has not read
    adapter,             \* the adapter: "prompt" or "stream" (ATMA running)
    last_ma,             \* the adapter's previous command was ATMA
    nw,                  \* commands written to the transport so far
    nl,                  \* monitor lines the adapter has emitted so far
    rpc,                 \* run: the line it is about to execute
    msg,                 \* run: the local msg
    char,                \* run: the local char
    data,                \* _process_data: the local data
    stack,               \* per caller thread: its call stack
    call,                \* per caller thread: the device method in progress
    prev,                \* per caller thread: the method it called before
    script,              \* per caller thread: for each call it will still
                         \* make, the methods it chooses from
    cb_log               \* invocations of the monitor callback, in order

vars == <<running, monitoring, processing_command, monitor_callback,
          recv_buffer, header, protocol, serial_open, rx, adapter, last_ma,
          nw, nl, rpc, msg, char, data, stack, call, prev, script,
          cb_log>>

-----------------------------------------------------------------------------
(* Bounds *)

MaxCalls == 3
MaxLines == 1
MaxRx == 3

Threads == {1, 2}

-----------------------------------------------------------------------------
(* Bytes, commands and frames *)

CR == "\r"
GT == ">"

ATMA == <<"A", "T", "M", "A">>
ATI == <<"A", "T", "I">>
ATRV == <<"A", "T", "R", "V">>
ATWS == <<"A", "T", "W", "S">>
ATSP == <<"A", "T", "S", "P">>
ATSH == <<"A", "T", "S", "H", " ">>

\* None, and the str 'SKIPPED' execute_many returns: no bytes value equals them
None == <<"None">>
SKIPPED == <<"SKIPPED">>
True == <<"True">>
False == <<"False">>

DigitChars == <<"0", "1", "2", "3", "4", "5", "6", "7", "8", "9",
                "a", "b", "c", "d", "e", "f">>
UpperHex == {"A", "B", "C", "D", "E", "F"}

RECURSIVE hex(_)
\* hex(n)[2:] for n >= 0: lowercase digits, no prefix
hex(n) ==
    IF n < 16 THEN <<DigitChars[n + 1]>>
    ELSE Append(hex(n \div 16), DigitChars[(n % 16) + 1])

\* str(n) for 0 <= n < 10
str(n) == <<DigitChars[n + 1]>>

\* s.replace(' ', '')
replace_spaces(s) == SelectSeq(s, LAMBDA c : c # " ")

IsHexDigit(c) == (\E i \in 1..16 : DigitChars[i] = c) \/ c \in UpperHex

\* int(s, 16) does not raise: an optional sign, an optional 0x prefix, then
\* hex digits, single underscores allowed between digits
int16_ok(s) ==
    LET unsigned == IF s # <<>> /\ Head(s) \in {"+", "-"} THEN Tail(s) ELSE s
        digits == IF Len(unsigned) >= 2 /\ unsigned[1] = "0"
                     /\ unsigned[2] \in {"x", "X"}
                  THEN SubSeq(unsigned, 3, Len(unsigned)) ELSE unsigned
    IN  /\ digits # <<>>
        /\ \A i \in 1..Len(digits) : IsHexDigit(digits[i]) \/ digits[i] = "_"
        /\ digits[1] # "_"
        /\ digits[Len(digits)] # "_"
        /\ \A i \in 1..(Len(digits) - 1) :
              ~(digits[i] = "_" /\ digits[i + 1] = "_")

\* b'?' in r or b'ERROR' in r
Contains(r, sub) ==
    \E i \in 1..(Len(r) - Len(sub) + 1) : SubSeq(r, i, i + Len(sub) - 1) = sub

\* data[:-2]
drop_last_two(d) == IF Len(d) <= 2 THEN <<>> ELSE SubSeq(d, 1, Len(d) - 2)

RECURSIVE Flatten(_)
Flatten(chunks) ==
    IF chunks = <<>> THEN <<>> ELSE Head(chunks) \o Flatten(Tail(chunks))

-----------------------------------------------------------------------------
(* The adapter *)

TagChars == <<"a", "b", "c", "d", "e", "f", "g", "h", "i", "j", "k", "l",
              "m", "n", "o", "p", "q", "r", "s", "t", "u", "v", "w", "x",
              "y", "z">>

\* The adapter's answer to the k-th command written: a body that names the
\* command, a carriage return inside the response, and the ready prompt.
ResponseChunks(k) == << <<"#", TagChars[k]>>, <<CR>>, <<GT>> >>
Response(k) == Flatten(ResponseChunks(k))

\* The n-th monitor line's payload, and the line as the adapter sends it:
\* with spaces on the adapter ends every byte, the last too, with a space.
Payload(n) == <<"7", "E", "8", " ", DigitChars[n + 1]>>
LineChunks(n, space) ==
    << (IF space THEN Append(Payload(n), " ") ELSE Payload(n)), <<CR>> >>
Line(n, space) == Flatten(LineChunks(n, space))

ATMAEcho == Append(ATMA, CR)

\* What the adapter does with one write of command text cmd and its CR, the
\* k-th write: [mode, last_ma, out].  A byte received while streaming stops
\* the stream and brings the prompt back.  At the prompt a bare CR repeats the
\* previous command; ATMA is echoed and starts the stream, with no prompt;
\* anything else is answered and followed by the prompt.
AdapterReceive(cmd, k) ==
    IF adapter = "stream"
    THEN [mode |-> "prompt", last_ma |-> last_ma, out |-> ResponseChunks(k)]
    ELSE IF cmd = ATMA \/ (cmd = <<>> /\ last_ma)
    THEN [mode |-> "stream", last_ma |-> TRUE,
          out |-> (IF cmd = <<>> THEN <<>> ELSE <<cmd>>) \o << <<CR>> >>]
    ELSE [mode |-> "prompt", last_ma |-> FALSE, out |-> ResponseChunks(k)]


-----------------------------------------------------------------------------
(* Caller threads: call stacks *)

Cb1 == <<"cb1">>
Cb2 == <<"cb2">>

\* A stack frame: the function, the line it is about to execute, its
\* arguments and locals.  wid and rid are bookkeeping: the number of the
\* command this frame wrote last, and of the one whose response it then drew.
Frame(fn, pc) ==
    [fn |-> fn, pc |-> pc, commands |-> <<>>, i |-> 1, resume_ma |-> TRUE,
     wait_for_response |-> TRUE, resume_monitoring |-> FALSE, resp |-> <<>>,
     header |-> <<>>, message |-> <<>>, callback |-> None, protocol |-> 0,
     wait_for_boot |-> TRUE, header_int |-> -1, r |-> <<>>, wid |-> 0,
     rid |-> 0]

\* The record of a device method called by a thread: its arguments, the
\* shared state when it was called, the bytes it wrote, how it ended.
CallRec(op) ==
    [op |-> op, status |-> "running", commands |-> <<>>, resume_ma |-> TRUE,
     wait_for_response |-> TRUE, header |-> <<>>, header_int |-> -1,
     message |-> <<>>, callback |-> None, protocol |-> 0,
     wait_for_boot |-> TRUE, monitoring0 |-> monitoring,
     callback0 |-> monitor_callback, header0 |-> header,
     wire |-> <<>>, ret |-> None]

NoCall == [CallRec("none") EXCEPT !.status = "none", !.monitoring0 = FALSE,
                                  !.callback0 = None, !.header0 = None]

Top(t) == stack[t][Len(stack[t])]

At(t, fn, pc) ==
    /\ stack[t] # <<>>
    /\ Top(t).fn = fn
    /\ Top(t).pc = pc

\* the top frame replaced by f
SetTop(t, f) == [stack EXCEPT ![t] = [@ EXCEPT ![Len(@)] = f]]

\* the top frame replaced by f, and a call of g on top of it
Push(t, f, g) == [stack EXCEPT ![t] = Append([@ EXCEPT ![Len(@)] = f], g)]

\* lines 213-215: send's result from the response r
send_result(r) ==
    IF Contains(r, <<"?">>) \/ Contains(r, <<"E", "R", "R", "O", "R">>)
    THEN False ELSE True

RECURSIVE Unwind(_, _)
\* The stack and the value after the top frame of stk returns val.  A calling
\* frame that has only its own return left (the end of the function, line 107
\* of execute_many, lines 213-215 of send) touches nothing shared and returns
\* in the same step.
Unwind(stk, val) ==
    LET rest == SubSeq(stk, 1, Len(stk) - 1)
        c == rest[Len(rest)]
    IN  IF rest = <<>> THEN [stack |-> <<>>, val |-> val]
        ELSE IF c.pc = "ret" THEN Unwind(rest, None)
        ELSE IF c.pc = "l107" THEN Unwind(rest, c.resp)
        ELSE IF c.pc = "l213" THEN Unwind(rest, send_result(val))
        ELSE [stack |-> [rest EXCEPT ![Len(rest)].r = val], val |-> val]

\* return val: to the calling frame's r, or to the thread when the device
\* method itself returns
Return(t, val) ==
    LET u == Unwind(stack[t], val)
    IN  /\ stack' = [stack EXCEPT ![t] = u.stack]
        /\ call' = IF u.stack = <<>>
                   THEN [call EXCEPT ![t].status = "returned",
                                     ![t].ret = u.val]
                   ELSE call

\* an exception nothing catches: it unwinds the thread's whole stack
Raise(t, what) ==
    /\ stack' = [stack EXCEPT ![t] = <<>>]
    /\ call' = [call EXCEPT ![t].status = "raised", ![t].ret = what]

\* execute(command, resume_ma, wait_for_response)
execute(command, resume_ma, wait_for_response) ==
    [Frame("execute_many", "l88") EXCEPT
        !.commands = <<command>>, !.resume_ma = resume_ma,
        !.wait_for_response = wait_for_response]

-----------------------------------------------------------------------------
(* execute_many, lines 78-107 *)

\* the variables of the reader thread and of the adapter's output count
reader_vars == <<rpc, msg, char, data, cb_log>>
budget_vars == <<prev, script, nl>>
transport_vars == <<serial_open, rx, adapter, last_ma, nw>>

\* line 88, and the call of stop_monitor_all on lines 90-91
execute_many_l88(t) ==
    /\ At(t, "execute_many", "l88")
    /\ LET f == Top(t)
           resume_monitoring == f.resume_ma /\ monitoring
           g == [f EXCEPT !.resume_monitoring = resume_monitoring,
                          !.pc = "l93"]
       IN  stack' = IF resume_monitoring
                    THEN Push(t, g, Frame("stop_monitor_all", "l240"))
                    ELSE SetTop(t, g)
    /\ UNCHANGED <<running, monitoring, processing_command, monitor_callback,
                   recv_buffer, header, protocol, call>>
    /\ UNCHANGED <<reader_vars, budget_vars, transport_vars>>

cycle_opened_never == FALSE

\* line 93: the value _processing_command gets before the first write
cycle_opened == TRUE

\* line 93
execute_many_l93(t) ==
    /\ At(t, "execute_many", "l93")
    /\ processing_command' = cycle_opened
    /\ stack' = SetTop(t, [Top(t) EXCEPT !.pc =
                     IF Top(t).commands = <<>> THEN "l103" ELSE "l98"])
    /\ UNCHANGED <<running, monitoring, monitor_callback, recv_buffer,
                   header, protocol, call>>
    /\ UNCHANGED <<reader_vars, budget_vars, transport_vars>>

\* lines 97-98: the command and its carriage return are written, and the
\* adapter receives them; writing to a closed port raises
execute_many_l98(t) ==
    /\ At(t, "execute_many", "l98")
    /\ LET f == Top(t)
           command == f.commands[f.i]
           a == AdapterReceive(command, nw + 1)
       IN  IF serial_open
           THEN /\ nw' = nw + 1
                /\ rx' = rx \o a.out
                /\ adapter' = a.mode
                /\ last_ma' = a.last_ma
                /\ call' = [call EXCEPT ![t].wire =
                               Append(@, Append(command, CR))]
                /\ stack' = SetTop(t, [f EXCEPT !.pc = "l101",
                                                !.wid = nw + 1])
           ELSE /\ Raise(t, <<"PortNotOpenError">>)
                /\ UNCHANGED <<nw, rx, adapter, last_ma>>
    /\ UNCHANGED <<running, monitoring, processing_command, monitor_callback,
                   recv_buffer, header, protocol, serial_open>>
    /\ UNCHANGED <<reader_vars, budget_vars>>

\* line 101, with _draw_response (lines 269-271): Queue.get blocks while the
\* queue is empty
execute_many_l101(t) ==
    /\ At(t, "execute_many", "l101")
    /\ LET f == Top(t)
           next == IF f.i < Len(f.commands) THEN "l98" ELSE "l103"
       IN  IF f.wait_for_response
           THEN /\ recv_buffer # <<>>
                /\ recv_buffer' = Tail(recv_buffer)
                /\ stack' = SetTop(t, [f EXCEPT !.resp = Head(recv_buffer),
                                                !.rid = f.wid,
                                                !.i = f.i + 1,
                                                !.pc = next])
           ELSE /\ recv_buffer' = recv_buffer
                /\ stack' = SetTop(t, [f EXCEPT !.resp = SKIPPED,
                                                !.i = f.i + 1,
                                                !.pc = next])
    /\ UNCHANGED <<running, monitoring, processing_command, monitor_callback,
                   header, protocol, call>>
    /\ UNCHANGED <<reader_vars, budget_vars, transport_vars>>

resumes_never(f) == FALSE

\* line 104
resumes(f) == f.resume_monitoring

\* line 103, and the return of line 107 when monitoring is not resumed
execute_many_l103(t) ==
    /\ At(t, "execute_many", "l103")
    /\ processing_command' = FALSE
    /\ IF resumes(Top(t))
       THEN /\ stack' = SetTop(t, [Top(t) EXCEPT !.pc = "l105"])
            /\ UNCHANGED call
       ELSE Return(t, Top(t).resp)
    /\ UNCHANGED <<running, monitoring, monitor_callback, recv_buffer,
                   header, protocol>>
    /\ UNCHANGED <<reader_vars, budget_vars, transport_vars>>

\* line 105: monitor_all(self._monitor_callback)
execute_many_l105(t) ==
    /\ At(t, "execute_many", "l105")
    /\ stack' = Push(t, [Top(t) EXCEPT !.pc = "l107"],
                     [Frame("monitor_all", "l227") EXCEPT
                         !.callback = monitor_callback])
    /\ UNCHANGED <<running, monitoring, processing_command, monitor_callback,
                   recv_buffer, header, protocol, call>>
    /\ UNCHANGED <<reader_vars, budget_vars, transport_vars>>

execute_many(t) ==
    \/ execute_many_l88(t)
    \/ execute_many_l93(t)
    \/ execute_many_l98(t)
    \/ execute_many_l101(t)
    \/ execute_many_l103(t)
    \/ execute_many_l105(t)

-----------------------------------------------------------------------------
(* monitor_all, lines 217-234, and stop_monitor_all, lines 236-243 *)

registered_unless_monitoring(callback) ==
    IF monitoring THEN monitor_callback ELSE callback

\* line 227: the callback is registered before monitoring is looked at
registered(callback) == callback

\* line 227
monitor_all_l227(t) ==
    /\ At(t, "monitor_all", "l227")
    /\ monitor_callback' = registered(Top(t).callback)
    /\ stack' = SetTop(t, [Top(t) EXCEPT !.pc = "l229"])
    /\ UNCHANGED <<running, monitoring, processing_command, recv_buffer,
                   header, protocol, call>>
    /\ UNCHANGED <<reader_vars, budget_vars, transport_vars>>

\* lines 229-231
monitor_all_l229(t) ==
    /\ At(t, "monitor_all", "l229")
    /\ IF monitoring
       THEN Return(t, None)
       ELSE /\ stack' = SetTop(t, [Top(t) EXCEPT !.pc = "l233"])
            /\ UNCHANGED call
    /\ UNCHANGED <<running, monitoring, processing_command, monitor_callback,
                   recv_buffer, header, protocol>>
    /\ UNCHANGED <<reader_vars, budget_vars, transport_vars>>

\* lines 233-234
monitor_all_l233(t) ==
    /\ At(t, "monitor_all", "l233")
    /\ monitoring' = TRUE
    /\ stack' = Push(t, [Top(t) EXCEPT !.pc = "ret"],
                     execute(ATMA, FALSE, FALSE))
    /\ UNCHANGED <<running, processing_command, monitor_callback,
                   recv_buffer, header, protocol, call>>
    /\ UNCHANGED <<reader_vars, budget_vars, transport_vars>>

monitor_all(t) ==
    \/ monitor_all_l227(t)
    \/ monitor_all_l229(t)
    \/ monitor_all_l233(t)

\* line 243: the command that cancels ATMA
cancel_command == <<>>

\* lines 240-243
stop_monitor_all_l240(t) ==
    /\ At(t, "stop_monitor_all", "l240")
    /\ monitoring' = FALSE
    /\ stack' = Push(t, [Top(t) EXCEPT !.pc = "ret"],
                     execute(cancel_command, FALSE, TRUE))
    /\ UNCHANGED <<running, processing_command, monitor_callback,
                   recv_buffer, header, protocol, call>>
    /\ UNCHANGED <<reader_vars, budget_vars, transport_vars>>

stop_monitor_all(t) ==
    \/ stop_monitor_all_l240(t)

-----------------------------------------------------------------------------
(* reset, lines 245-256 *)

\* line 251
reset_l251(t) ==
    /\ At(t, "reset", "l251")
    /\ monitoring' = FALSE
    /\ stack' = SetTop(t, [Top(t) EXCEPT !.pc = "l252"])
    /\ UNCHANGED <<running, processing_command, monitor_callback,
                   recv_buffer, header, protocol, call>>
    /\ UNCHANGED <<reader_vars, budget_vars, transport_vars>>

\* lines 252-253
reset_l252(t) ==
    /\ At(t, "reset", "l252")
    /\ header' = None
    /\ stack' = Push(t, [Top(t) EXCEPT !.pc = "l256"],
                     execute(<<" ">>, TRUE, TRUE))
    /\ UNCHANGED <<running, monitoring, processing_command, monitor_callback,
                   recv_buffer, protocol, call>>
    /\ UNCHANGED <<reader_vars, budget_vars, transport_vars>>

\* line 256
reset_l256(t) ==
    /\ At(t, "reset", "l256")
    /\ stack' = Push(t, [Top(t) EXCEPT !.pc = "ret"],
                     execute(ATWS, TRUE, Top(t).wait_for_boot))
    /\ UNCHANGED <<running, monitoring, processing_command, monitor_callback,
                   recv_buffer, header, protocol, call>>
    /\ UNCHANGED <<reader_vars, budget_vars, transport_vars>>

reset(t) ==
    \/ reset_l251(t)
    \/ reset_l252(t)
    \/ reset_l256(t)

-----------------------------------------------------------------------------
(* set_protocol, set_header, send_with_header, send: lines 131-215 *)

\* line 137
set_protocol_l137(t) ==
    /\ At(t, "set_protocol", "l137")
    /\ stack' = Push(t, [Top(t) EXCEPT !.pc = "l138"],
                     execute(ATSP \o str(Top(t).protocol), TRUE, TRUE))
    /\ UNCHANGED <<running, monitoring, processing_command, monitor_callback,
                   recv_buffer, header, protocol, call>>
    /\ UNCHANGED <<reader_vars, budget_vars, transport_vars>>

\* line 138
set_protocol_l138(t) ==
    /\ At(t, "set_protocol", "l138")
    /\ protocol' = Top(t).protocol
    /\ stack' = SetTop(t, [Top(t) EXCEPT !.pc = "l139"])
    /\ UNCHANGED <<running, monitoring, processing_command, monitor_callback,
                   recv_buffer, header, call>>
    /\ UNCHANGED <<reader_vars, budget_vars, transport_vars>>

\* line 139
set_protocol_l139(t) ==
    /\ At(t, "set_protocol", "l139")
    /\ header' = None
    /\ Return(t, None)
    /\ UNCHANGED <<running, monitoring, processing_command, monitor_callback,
                   recv_buffer, protocol>>
    /\ UNCHANGED <<reader_vars, budget_vars, transport_vars>>

set_protocol(t) ==
    \/ set_protocol_l137(t)
    \/ set_protocol_l138(t)
    \/ set_protocol_l139(t)

\* lines 148-151 and 172-175: an int becomes its lowercase hex digits, a str
\* loses its spaces
header_text(f) ==
    IF f.header_int >= 0 THEN hex(f.header_int) ELSE replace_spaces(f.header)

already_set_never(h) == FALSE

\* line 153: the memo
already_set(h) == h = header

\* lines 148-155
set_header_l148(t) ==
    /\ At(t, "set_header", "l148")
    /\ LET h == header_text(Top(t))
       IN  IF already_set(h)
           THEN Return(t, None)
           ELSE /\ stack' = SetTop(t, [Top(t) EXCEPT !.header = h,
                                                     !.header_int = -1,
                                                     !.pc = "l156"])
                /\ UNCHANGED call
    /\ UNCHANGED <<running, monitoring, processing_command, monitor_callback,
                   recv_buffer, header, protocol>>
    /\ UNCHANGED <<reader_vars, budget_vars, transport_vars>>

\* lines 156-163: the memo is assigned, then the header is validated
set_header_l156(t) ==
    /\ At(t, "set_header", "l156")
    /\ header' = Top(t).header
    /\ IF int16_ok(Top(t).header)
       THEN /\ stack' = Push(t, [Top(t) EXCEPT !.pc = "ret"],
                             execute(ATSH \o Top(t).header, TRUE, TRUE))
            /\ UNCHANGED call
       ELSE Raise(t, <<"Header must be HEX">>)
    /\ UNCHANGED <<running, monitoring, processing_command, monitor_callback,
                   recv_buffer, protocol>>
    /\ UNCHANGED <<reader_vars, budget_vars, transport_vars>>

set_header(t) ==
    \/ set_header_l148(t)
    \/ set_header_l156(t)

\* lines 172-193: nothing shared is written; the comparison with the memo on
\* line 177 only logs
send_with_header_l172(t) ==
    /\ At(t, "send_with_header", "l172")
    /\ LET h == header_text(Top(t))
           message == replace_spaces(Top(t).message)
       IN  IF ~int16_ok(h)
           THEN Raise(t, <<"Header must be HEX">>)
           ELSE IF ~int16_ok(message)
           THEN Raise(t, <<"Message must be hex-string">>)
           ELSE /\ stack' = Push(t, [Top(t) EXCEPT !.pc = "ret"],
                                 [Frame("execute_many", "l88") EXCEPT
                                     !.commands = <<ATSH \o h, message>>])
                /\ UNCHANGED call
    /\ UNCHANGED <<running, monitoring, processing_command, monitor_callback,
                   recv_buffer, header, protocol>>
    /\ UNCHANGED <<reader_vars, budget_vars, transport_vars>>

send_with_header(t) ==
    \/ send_with_header_l172(t)

\* lines 205-212
send_l205(t) ==
    /\ At(t, "send", "l205")
    /\ LET message == replace_spaces(Top(t).message)
       IN  IF ~int16_ok(message)
           THEN Raise(t, <<"Message must be hex-string">>)
           ELSE /\ stack' = Push(t, [Top(t) EXCEPT !.pc = "l213"],
                                 execute(message, TRUE, TRUE))
                /\ UNCHANGED call
    /\ UNCHANGED <<running, monitoring, processing_command, monitor_callback,
                   recv_buffer, header, protocol>>
    /\ UNCHANGED <<reader_vars, budget_vars, transport_vars>>

send(t) ==
    \/ send_l205(t)

-----------------------------------------------------------------------------
(* stop, lines 69-72, and close, lines 122-124 *)

\* line 71
stop_l71(t) ==
    /\ At(t, "stop", "l71")
    /\ running' = FALSE
    /\ stack' = SetTop(t, [Top(t) EXCEPT !.pc = "l72"])
    /\ UNCHANGED <<monitoring, processing_command, monitor_callback,
                   recv_buffer, header, protocol, call>>
    /\ UNCHANGED <<reader_vars, budget_vars, transport_vars>>

\* line 72
stop_l72(t) ==
    /\ At(t, "stop", "l72")
    /\ serial_open' = FALSE
    /\ Return(t, None)
    /\ UNCHANGED <<running, monitoring, processing_command, monitor_callback,
                   recv_buffer, header, protocol>>
    /\ UNCHANGED <<reader_vars, budget_vars, rx, adapter, last_ma, nw>>

stop(t) ==
    \/ stop_l71(t)
    \/ stop_l72(t)

\* line 124
close(t) ==
    /\ At(t, "close", "l124")
    /\ serial_open' = FALSE
    /\ Return(t, None)
    /\ UNCHANGED <<running, monitoring, processing_command, monitor_callback,
                   recv_buffer, header, protocol>>
    /\ UNCHANGED <<reader_vars, budget_vars, rx, adapter, last_ma, nw>>

-----------------------------------------------------------------------------
(* The reader thread: run, lines 40-67, and _process_data, lines 109-120 *)

caller_vars == <<stack, call, prev, script>>

\* line 43, the loop's test: run reads self._running after the last shared
\* access of the iteration before
loop_top == IF running THEN "l45" ELSE "done"

\* line 45: read(1) blocks until a byte is there, and raises once the port
\* is closed
run_l45 ==
    /\ rpc = "l45"
    /\ IF serial_open
       THEN /\ rx # <<>>
            /\ char' = Head(rx)
            /\ rx' = Tail(rx)
            /\ rpc' = "l52"
       ELSE /\ rpc' = "l47"
            /\ UNCHANGED <<char, rx>>
    /\ UNCHANGED <<running, monitoring, processing_command, monitor_callback,
                   recv_buffer, header, protocol, msg, data, cb_log, nl>>
    /\ UNCHANGED <<caller_vars, serial_open, adapter, last_ma, nw>>

\* lines 46-49
run_l47 ==
    /\ rpc = "l47"
    /\ rpc' = IF running THEN "raised" ELSE "done"
    /\ UNCHANGED <<running, monitoring, processing_command, monitor_callback,
                   recv_buffer, header, protocol, msg, char, data, cb_log,
                   nl>>
    /\ UNCHANGED <<caller_vars, transport_vars>>

stop_char_of_prompt_mode == <<GT>>

\* line 52
stop_char == IF monitoring THEN <<CR>> ELSE <<GT>>

\* lines 52-55 (the read of monitoring on line 58 only logs); char is not
\* read again before line 45 assigns it
run_l52 ==
    /\ rpc = "l52"
    /\ msg' = msg \o char
    /\ char' = <<>>
    /\ rpc' = IF char # stop_char THEN loop_top ELSE "l61"
    /\ UNCHANGED <<running, monitoring, processing_command, monitor_callback,
                   recv_buffer, header, protocol, data, cb_log, nl>>
    /\ UNCHANGED <<caller_vars, transport_vars>>

\* lines 61-62
run_l61 ==
    /\ rpc = "l61"
    /\ recv_buffer' = Append(recv_buffer, msg)
    /\ msg' = <<>>
    /\ rpc' = "l64"
    /\ UNCHANGED <<running, monitoring, processing_command, monitor_callback,
                   header, protocol, char, data, cb_log, nl>>
    /\ UNCHANGED <<caller_vars, transport_vars>>

\* lines 64-67
run_l64 ==
    /\ rpc = "l64"
    /\ rpc' = IF monitoring THEN "l111" ELSE loop_top
    /\ UNCHANGED <<running, monitoring, processing_command, monitor_callback,
                   recv_buffer, header, protocol, msg, char, data, cb_log,
                   nl>>
    /\ UNCHANGED <<caller_vars, transport_vars>>

filtered_nothing(d) == FALSE

\* lines 115-117: the hard-coded filter
filtered(d) == d = ATMAEcho

\* lines 111-117, with _draw_response (lines 269-271)
process_data_l111 ==
    /\ rpc = "l111"
    /\ recv_buffer # <<>>
    /\ data' = Head(recv_buffer)
    /\ recv_buffer' = Tail(recv_buffer)
    /\ rpc' = IF filtered(Head(recv_buffer)) THEN loop_top ELSE "l119"
    /\ UNCHANGED <<running, monitoring, processing_command, monitor_callback,
                   header, protocol, msg, char, cb_log, nl>>
    /\ UNCHANGED <<caller_vars, transport_vars>>

\* line 119
process_data_l119 ==
    /\ rpc = "l119"
    /\ rpc' = IF ~processing_command THEN "l120" ELSE loop_top
    /\ UNCHANGED <<running, monitoring, processing_command, monitor_callback,
                   recv_buffer, header, protocol, msg, char, data, cb_log,
                   nl>>
    /\ UNCHANGED <<caller_vars, transport_vars>>

\* line 120: the callback runs on the reader's thread; calling None raises
process_data_l120 ==
    /\ rpc = "l120"
    /\ IF monitor_callback = None
       THEN /\ rpc' = "raised"
            /\ UNCHANGED cb_log
       ELSE /\ rpc' = loop_top
            /\ cb_log' = Append(cb_log, [cb |-> monitor_callback,
                                         data |-> data,
                                         arg |-> drop_last_two(data)])
    /\ UNCHANGED <<running, monitoring, processing_command, monitor_callback,
                   recv_buffer, header, protocol, msg, char, data, nl>>
    /\ UNCHANGED <<caller_vars, transport_vars>>

run ==
    \/ run_l45
    \/ run_l47
    \/ run_l52
    \/ run_l61
    \/ run_l64
    \/ process_data_l111
    \/ process_data_l119
    \/ process_data_l120

-----------------------------------------------------------------------------
(* The adapter streams a monitor line *)

emit_line ==
    /\ adapter = "stream"
    /\ serial_open
    /\ nl < MaxLines
    /\ Len(rx) < MaxRx
    /\ nl' = nl + 1
    /\ \E space \in BOOLEAN : rx' = rx \o LineChunks(nl + 1, space)
    /\ UNCHANGED <<running, monitoring, processing_command, monitor_callback,
                   recv_buffer, header, protocol, serial_open, adapter,
                   last_ma, nw>>
    /\ UNCHANGED <<reader_vars, caller_vars>>

-----------------------------------------------------------------------------
(* A thread calls a device method *)

\* the arguments the callers choose from
ExecuteArgs ==
    { [commands |-> <<ATI>>, resume_ma |-> r, wait_for_response |-> w] :
        r \in BOOLEAN, w \in BOOLEAN }
    \cup { [commands |-> <<ATI, ATRV>>, resume_ma |-> TRUE,
            wait_for_response |-> TRUE] }
HeaderStrs == {<<"7", "E", "0">>, <<"7", "D", "F">>, <<"Z", "Z">>}
HeaderInts == {2016}
Messages == {<<"0", "2", " ", "0", "1">>, <<"X", "Y">>}
SendWithHeaderArgs ==
    { [header |-> h, message |-> <<"0", "2", " ", "0", "1">>] :
        h \in HeaderStrs }
    \cup { [header |-> <<"7", "D", "F">>, message |-> <<"X", "Y">>] }
Callbacks == {Cb1, Cb2}
ProtocolIds == {6}

begin(t, rec, f) ==
    /\ stack[t] = <<>>
    /\ script[t] # <<>>
    /\ rec.op \in Head(script[t])
    /\ script' = [script EXCEPT ![t] = Tail(@)]
    /\ prev' = [prev EXCEPT ![t] = call[t]]
    /\ call' = [call EXCEPT ![t] = rec]
    /\ stack' = [stack EXCEPT ![t] = <<f>>]
    /\ UNCHANGED <<running, monitoring, processing_command, monitor_callback,
                   recv_buffer, header, protocol, nl>>
    /\ UNCHANGED <<reader_vars, transport_vars>>

call_execute_many(t) ==
    \E a \in ExecuteArgs :
        begin(t, [CallRec("execute_many") EXCEPT
                     !.commands = a.commands, !.resume_ma = a.resume_ma,
                     !.wait_for_response = a.wait_for_response],
                 [Frame("execute_many", "l88") EXCEPT
                     !.commands = a.commands, !.resume_ma = a.resume_ma,
                     !.wait_for_response = a.wait_for_response])

call_set_protocol(t) ==
    \E p \in ProtocolIds :
        begin(t, [CallRec("set_protocol") EXCEPT !.protocol = p],
                 [Frame("set_protocol", "l137") EXCEPT !.protocol = p])

call_set_header(t) ==
    \/ \E h \in HeaderStrs :
        begin(t, [CallRec("set_header") EXCEPT !.header = h],
                 [Frame("set_header", "l148") EXCEPT !.header = h])
    \/ \E n \in HeaderInts :
        begin(t, [CallRec("set_header") EXCEPT !.header_int = n],
                 [Frame("set_header", "l148") EXCEPT !.header_int = n])

call_send_with_header(t) ==
    \E a \in SendWithHeaderArgs :
        begin(t, [CallRec("send_with_header") EXCEPT
                     !.header = a.header, !.message = a.message],
                 [Frame("send_with_header", "l172") EXCEPT
                     !.header = a.header, !.message = a.message])

call_send(t) ==
    \E m \in Messages :
        begin(t, [CallRec("send") EXCEPT !.message = m],
                 [Frame("send", "l205") EXCEPT !.message = m])

call_monitor_all(t) ==
    \E cb \in Callbacks :
        begin(t, [CallRec("monitor_all") EXCEPT !.callback = cb],
                 [Frame("monitor_all", "l227") EXCEPT !.callback = cb])

call_stop_monitor_all(t) ==
    begin(t, CallRec("stop_monitor_all"), Frame("stop_monitor_all", "l240"))

call_reset(t) ==
    \E wait_for_boot \in BOOLEAN :
        begin(t, [CallRec("reset") EXCEPT !.wait_for_boot = wait_for_boot],
                 [Frame("reset", "l251") EXCEPT
                     !.wait_for_boot = wait_for_boot])

call_stop(t) ==
    begin(t, CallRec("stop"), Frame("stop", "l71"))

call_close(t) ==
    begin(t, CallRec("close"), Frame("close", "l124"))

-----------------------------------------------------------------------------
(* The specifications *)

\* The state __init__ (lines 13-38) leaves: the reader started, the adapter
\* reset and at its prompt, every response drawn.
InitDevice ==
    /\ running = TRUE
    /\ monitoring = FALSE
    /\ processing_command = FALSE
    /\ monitor_callback = None
    /\ recv_buffer = <<>>
    /\ header = None
    /\ protocol = 0
    /\ serial_open = TRUE
    /\ rx = <<>>
    /\ adapter = "prompt"
    /\ last_ma = FALSE
    /\ nw = 0
    /\ nl = 0
    /\ rpc = "l45"
    /\ msg = <<>>
    /\ char = <<>>
    /\ data = <<>>
    /\ stack = [t \in Threads |-> <<>>]
    /\ call = [t \in Threads |-> NoCall]
    /\ prev = [t \in Threads |-> NoCall]
    /\ cb_log = <<>>

\* What the callers do with the device: for each thread, the methods it
\* chooses from at each of its calls.
HeaderMethods ==
    {"set_header", "send_with_header", "send", "set_protocol", "reset"}
MonitorMethods ==
    {"monitor_all", "execute_many", "stop_monitor_all", "reset"}

Scripts ==
    { << [i \in 1..MaxCalls |-> HeaderMethods], <<>> >>,
      << <<{"monitor_all"}, MonitorMethods, {"stop"}>>, <<>> >>,
      << <<{"execute_many"}, {"monitor_all", "execute_many"}, {"reset"}>>,
         <<>> >>,
      << <<{"monitor_all", "execute_many"}>>, <<{"stop", "close"}>> >>,
      << <<{"execute_many"}>>, <<{"execute_many"}>> >> }

Init ==
    /\ InitDevice
    /\ \E s \in Scripts : script = [t \in Threads |-> s[t]]

Next ==
    \/ \E t \in Threads :
        \/ call_execute_many(t)
        \/ call_set_protocol(t)
        \/ call_set_header(t)
        \/ call_send_with_header(t)
        \/ call_send(t)
        \/ call_monitor_all(t)
        \/ call_stop_monitor_all(t)
        \/ call_reset(t)
        \/ call_stop(t)
        \/ call_close(t)
        \/ execute_many(t)
        \/ monitor_all(t)
        \/ stop_monitor_all(t)
        \/ reset(t)
        \/ set_protocol(t)
        \/ set_header(t)
        \/ send_with_header(t)
        \/ send(t)
        \/ stop(t)
        \/ close(t)
    \/ run
    \/ emit_line

Spec == Init /\ [][Next]_vars

-----------------------------------------------------------------------------
(* Vocabulary of the properties *)

\* the bytes one write of a command puts on the transport
Written(command) == Append(command, CR)

IsHeaderSet(bytes) ==
    Len(bytes) >= Len(ATSH) /\ SubSeq(bytes, 1, Len(ATSH)) = ATSH

CountHeaderSets(wire) ==
    Cardinality({i \in 1..Len(wire) : IsHeaderSet(wire[i])})

\* t is the only thread that has called the device
OnlyCaller(t) == \A u \in Threads \ {t} : call[u].status = "none"

\* t's call of op has returned
Returned(t, op) == call[t].op = op /\ call[t].status = "returned"

\* t is blocked in _draw_response, called from execute_many
BlockedInDraw(t) ==
    /\ At(t, "execute_many", "l101")
    /\ Top(t).wait_for_response
    /\ recv_buffer = <<>>

-----------------------------------------------------------------------------
(* C1 *)

RECURSIVE WrittenAll(_)
WrittenAll(commands) ==
    IF commands = <<>> THEN <<>>
    ELSE <<Written(Head(commands))>> \o WrittenAll(Tail(commands))

\* t's call of execute_many with resume_ma, begun while monitoring, returned
SuspendedAndResumed(t) ==
    /\ Returned(t, "execute_many")
    /\ call[t].resume_ma
    /\ call[t].monitoring0
    /\ OnlyCaller(t)

\* C1: a call of execute/execute_many with resume_ma=True made by the only
\* caller while monitor mode is active writes the cancel probe, then the
\* requested commands in list order, then ATMA, and nothing else; when it has
\* returned monitoring is true and the callback is the one registered before.
C1_SuspendResume ==
    \A t \in Threads :
        SuspendedAndResumed(t) =>
            /\ call[t].wire = <<Written(cancel_command)>>
                                \o WrittenAll(call[t].commands)
                                \o <<Written(ATMA)>>
            /\ monitoring
            /\ monitor_callback = call[t].callback0

C1_Witness ==
    \E t \in Threads :
        /\ SuspendedAndResumed(t)
        /\ Len(call[t].commands) = 2
        /\ call[t].callback0 = Cb2

-----------------------------------------------------------------------------
(* C2 *)

\* C2: with one caller, every response execute_many has drawn is the frame
\* the adapter produced in answer to the command written just before the draw.
C2_DrawsOwnResponse ==
    \A t \in Threads :
        \A i \in 1..Len(stack[t]) :
            (/\ OnlyCaller(t)
             /\ stack[t][i].fn = "execute_many"
             /\ stack[t][i].rid > 0)
            => stack[t][i].resp = Response(stack[t][i].rid)

-----------------------------------------------------------------------------
(* C3 *)

ReaderExited == rpc \in {"done", "raised"}

\* C3: once stop() or close() has returned and the reader thread has exited,
\* no caller is still blocked in _draw_response on the empty queue (nothing
\* is left that could put a frame, so a caller blocked then stays blocked).
C3_StopReleasesCaller ==
    ~ \E t \in Threads, u \in Threads :
        /\ BlockedInDraw(t)
        /\ call[u].op \in {"stop", "close"}
        /\ call[u].status = "returned"
        /\ ReaderExited

-----------------------------------------------------------------------------
(* C4 *)

\* C4: the callback is never invoked with a frame that is exactly the echo
\* of ATMA.
C4_EchoNeverReachesCallback ==
    \A i \in 1..Len(cb_log) : cb_log[i].data # ATMAEcho

\* the reader has drawn and dropped the echo of the ATMA that a
\* suspend/resume cycle re-issued: the cycle has returned, every byte is read
\* and every frame drawn, and the frame the reader drew last is the echo
C4_Witness ==
    /\ \E t \in Threads : SuspendedAndResumed(t)
    /\ rx = <<>>
    /\ msg = <<>>
    /\ recv_buffer = <<>>
    /\ rpc = "l45"
    /\ data = ATMAEcho

-----------------------------------------------------------------------------
(* C5 *)

\* C5: when the callback is invoked with a monitor line the adapter emitted,
\* its argument is the line's payload: the carriage return and the adapter's
\* trailing space, if any, removed and nothing else.
C5_CallbackGetsPayload ==
    \A i \in 1..Len(cb_log) :
        \A n \in 1..MaxLines, space \in BOOLEAN :
            cb_log[i].data = Line(n, space) => cb_log[i].arg = Payload(n)

-----------------------------------------------------------------------------
(* C6 *)

\* C6: once a reset() called while monitor mode was active has returned, the
\* monitor callback is not invoked (until the caller's next call).
C6_NoCallbackAfterReset ==
    [][(\E t \in Threads :
            /\ Returned(t, "reset")
            /\ call[t].monitoring0
            /\ OnlyCaller(t))
       => cb_log' = cb_log]_vars

-----------------------------------------------------------------------------
(* C7 *)

\* t has called set_header twice in a row with the same valid hex string,
\* and both calls have returned
SetHeaderTwice(t) ==
    /\ Returned(t, "set_header")
    /\ prev[t].op = "set_header"
    /\ prev[t].status = "returned"
    /\ call[t].header_int = -1
    /\ prev[t].header_int = -1
    /\ call[t].header = prev[t].header
    /\ int16_ok(replace_spaces(call[t].header))

\* C7 as stated: the two calls write exactly one header-set command.
C7_ExactlyOneHeaderSet ==
    \A t \in Threads :
        SetHeaderTwice(t) =>
            CountHeaderSets(prev[t].wire) + CountHeaderSets(call[t].wire) = 1

\* C7 as amended: the second call writes nothing, and the first writes one
\* header-set command unless the memo was h already, and then none.
C7_SecondCallWritesNothing ==
    \A t \in Threads :
        SetHeaderTwice(t) =>
            /\ call[t].wire = <<>>
            /\ CountHeaderSets(prev[t].wire) =
                  IF prev[t].header0 = replace_spaces(call[t].header)
                  THEN 0 ELSE 1

C7_Witness ==
    \E t \in Threads :
        /\ SetHeaderTwice(t)
        /\ CountHeaderSets(prev[t].wire) = 1
        /\ call[t].wire = <<>>

-----------------------------------------------------------------------------
(* C8 *)

\* the call's header or message argument is not hex
NonHexArgument(c) ==
    \/ /\ c.op \in {"set_header", "send_with_header"}
       /\ ~int16_ok(header_text(c))
    \/ /\ c.op \in {"send", "send_with_header"}
       /\ ~int16_ok(replace_spaces(c.message))

\* C8: a call of set_header, send or send_with_header with a non-hex argument
\* ends with the validation error and has written nothing.
C8_NonHexRejected ==
    \A t \in Threads :
        (call[t].status \in {"returned", "raised"} /\ NonHexArgument(call[t]))
        => /\ call[t].status = "raised"
           /\ call[t].ret \in {<<"Header must be HEX">>,
                               <<"Message must be hex-string">>}
           /\ call[t].wire = <<>>

-----------------------------------------------------------------------------
(* C9 *)

\* t's call of monitor_all, made by the only caller while monitoring, has
\* returned
MonitorAllAgain(t) ==
    /\ Returned(t, "monitor_all")
    /\ call[t].monitoring0
    /\ OnlyCaller(t)

\* C9 as stated: nothing was written, monitoring is true, and the callback
\* is the one registered before the call.
C9_CallbackKept ==
    \A t \in Threads :
        MonitorAllAgain(t) =>
            /\ call[t].wire = <<>>
            /\ monitoring
            /\ monitor_callback = call[t].callback0

\* C9 as amended: nothing was written, monitoring is true, the callback is
\* the one the call passed, and a frame delivered from then on goes to it.
C9_CallbackReplaced ==
    [][\A t \in Threads :
          MonitorAllAgain(t) =>
              /\ call[t].wire = <<>>
              /\ monitoring
              /\ monitor_callback = call[t].callback
              /\ cb_log' # cb_log =>
                    cb_log'[Len(cb_log')].cb = call[t].callback]_vars

C9_Witness ==
    \E t \in Threads :
        /\ MonitorAllAgain(t)
        /\ call[t].callback # call[t].callback0
        /\ cb_log # <<>>
        /\ cb_log[Len(cb_log)].cb = call[t].callback
        /\ cb_log[Len(cb_log)].data = Line(1, TRUE)

-----------------------------------------------------------------------------
(* C10 *)

\* C10: the pending-response queue never holds more than one frame.
C10_QueueAtMostOne == Len(recv_buffer) <= 1

-----------------------------------------------------------------------------
(* C11 *)

\* t waits in _draw_response for the response of a command it executed with
\* resume_ma=False and wait_for_response=True while monitor mode is active
WaitsWhileMonitoring(t) ==
    /\ At(t, "execute_many", "l101")
    /\ Top(t).wait_for_response
    /\ ~Top(t).resume_ma
    /\ processing_command
    /\ monitoring

\* the reader's _process_data takes a frame off the queue
ReaderDraws == rpc = "l111" /\ rpc' # "l111"

\* the frame the reader makes of the k-th command's response while monitoring
\* is true: the response up to its first carriage return
ResponseLine(k) == Flatten(SubSeq(ResponseChunks(k), 1, 2))

\* C11: while a caller waits for its response with _processing_command and
\* monitoring both true, the frame the reader completes from that response is
\* left on the queue for the caller: the reader does not take it off.
C11_FrameLeftForCaller ==
    [][(\E t \in Threads :
            /\ OnlyCaller(t)
            /\ WaitsWhileMonitoring(t)
            /\ recv_buffer # <<>>
            /\ Head(recv_buffer) = ResponseLine(Top(t).wid))
       => ~ReaderDraws]_vars

-----------------------------------------------------------------------------
(* C12 *)

\* t is inside a command cycle: it has written a command of execute_many and
\* has not yet drawn the last response the cycle waits for
InCycle(t) ==
    /\ stack[t] # <<>>
    /\ Top(t).fn = "execute_many"
    /\ Top(t).pc \in {"l98", "l101"}
    /\ Top(t).wait_for_response
    /\ Top(t).wid > 0

\* C12: two caller threads are never inside a command cycle at once.
C12_CyclesExclusive ==
    \A t \in Threads, u \in Threads : t # u => ~(InCycle(t) /\ InCycle(u))

-----------------------------------------------------------------------------
(* C13 *)

\* t is in the command cycle of the cancel probe: the execute that
\* stop_monitor_all calls on line 243
InProbe(t) ==
    /\ Len(stack[t]) >= 2
    /\ Top(t).fn = "execute_many"
    /\ stack[t][Len(stack[t]) - 1].fn = "stop_monitor_all"

\* t, the only caller, is in the probe's cycle of a suspend step: of
\* stop_monitor_all or of execute_many with resume_ma, called while monitoring
InSuspend(t) ==
    /\ OnlyCaller(t)
    /\ call[t].monitoring0
    /\ call[t].op \in {"stop_monitor_all", "execute_many"}
    /\ InProbe(t)

\* the frame holds the response r at its end
EndsWith(frame, r) ==
    /\ Len(frame) >= Len(r)
    /\ SubSeq(frame, Len(frame) - Len(r) + 1, Len(frame)) = r

\* t takes a frame off the queue
CallerDraws(t) == stack'[t] # stack[t] /\ recv_buffer' # recv_buffer

\* C13: in a suspend step monitoring is false when the cancel probe is
\* written, and the frame drawn before the step goes on to the requested
\* commands holds the probe's response.
C13_SuspendOrdered ==
    [][\A t \in Threads :
          InSuspend(t) =>
              /\ nw' # nw => ~monitoring
              /\ CallerDraws(t) =>
                    EndsWith(Head(recv_buffer), Response(Top(t).wid))]_vars

-----------------------------------------------------------------------------
(* C14 *)

\* C14: while the only caller is in a command cycle of execute_many, about to
\* write a command or waiting for a response, _processing_command is true;
\* when it reaches line 103, which sets it back to false, every command of the
\* cycle has been written and every response the cycle waits for drawn.
C14_ProcessingDuringCycle ==
    \A t \in Threads :
        (OnlyCaller(t) /\ stack[t] # <<>> /\ Top(t).fn = "execute_many") =>
            /\ Top(t).pc \in {"l98", "l101"} => processing_command
            /\ Top(t).pc = "l103" =>
                  /\ Top(t).i = Len(Top(t).commands) + 1
                  /\ Top(t).wait_for_response /\ Top(t).commands # <<>>
                        => Top(t).rid = Top(t).wid

\* the only caller waits for the response of the cancel probe, in the nested
\* cycle of a suspend/resume
C14_Witness ==
    \E t \in Threads :
        /\ InSuspend(t)
        /\ call[t].op = "execute_many"
        /\ BlockedInDraw(t)
        /\ processing_command

-----------------------------------------------------------------------------
(* C15 *)

\* the reader waits in _process_data's _draw_response on an empty queue; run
\* is the only thread that puts frames, so it waits for ever
ReaderStuck == rpc = "l111" /\ recv_buffer = <<>>

\* C15: once stop() has returned the reader is on its way out: it is never
\* stuck in _process_data, where it can neither terminate nor see _running.
C15_ReaderLeavesAfterStop ==
    (\E u \in Threads : Returned(u, "stop")) => ~ReaderStuck

-----------------------------------------------------------------------------
(* C16 *)

\* C16: what stop_monitor_all has written to the transport is a command text
\* of at least one byte followed by the carriage return, never the carriage
\* return alone.
C16_CancelNotBare ==
    \A t \in Threads :
        (InProbe(t) /\ Top(t).wid > 0) =>
            /\ call[t].wire # <<>>
            /\ Len(call[t].wire[Len(call[t].wire)]) > 1

-----------------------------------------------------------------------------
(* C17 *)

\* run handles the byte it has read: lines 52-55
ReaderHandlesByte == rpc = "l52" /\ rpc' # "l52"

\* run emits the frame it has completed: lines 61-62
ReaderEmitsFrame == rpc = "l61" /\ rpc' # "l61"

\* C17: for each byte it has read, run takes the terminator from monitoring
\* as it is then (nothing shared is touched between the read of line 45 and
\* line 52): the byte is appended, and it completes the frame exactly when it
\* is ">" with monitoring false or a carriage return with monitoring true;
\* the frame emitted is the whole buffer, it ends with a terminator, and the
\* buffer is empty afterwards.
C17_TerminatorPerByte ==
    [][/\ ReaderHandlesByte =>
            /\ msg' = msg \o char
            /\ (rpc' = "l61") <=> (char = IF monitoring THEN <<CR>> ELSE <<GT>>)
       /\ ReaderEmitsFrame =>
            /\ msg # <<>>
            /\ msg[Len(msg)] \in {CR, GT}
            /\ recv_buffer' = Append(recv_buffer, msg)
            /\ msg' = <<>>]_vars

\* both rules have applied: a monitor line was completed by its carriage
\* return and delivered, and a response with a carriage return inside it is
\* on the queue as one frame, the buffer empty
C17_Witness ==
    /\ \E i \in 1..Len(cb_log) : cb_log[i].data = Line(1, TRUE)
    /\ nw > 0
    /\ recv_buffer = <<Response(nw)>>
    /\ msg = <<>>

-----------------------------------------------------------------------------
(* C18 *)

\* the last header-set command among the writes wire, which holds one
LastHeaderSet(wire) ==
    LET sets == {i \in 1..Len(wire) : IsHeaderSet(wire[i])}
    IN  wire[CHOOSE i \in sets : \A j \in sets : j <= i]

\* C18: when a call of the only caller that wrote a header-set command has
\* returned (no protocol change or reset has come since that write), the memo
\* is None or is the header of the last header-set command written.
C18_MemoIsLastHeaderSet ==
    \A t \in Threads :
        (/\ OnlyCaller(t)
         /\ call[t].status = "returned"
         /\ call[t].op \in {"set_header", "send_with_header"}
         /\ CountHeaderSets(call[t].wire) > 0
         /\ header # None)
        => LastHeaderSet(call[t].wire) = Written(ATSH \o header)

-----------------------------------------------------------------------------
(* C19 *)

\* C19: the reader never waits in _process_data on an empty queue: the frame
\* it put on line 61 is still there when it draws on line 111.
C19_ReaderDrawReturns == ~ReaderStuck

-----------------------------------------------------------------------------
(* C20 *)

\* C20: when a call of set_header by the only caller has failed validation,
\* the memo is what it was when the call was made.
C20_RejectedHeaderNotStored ==
    \A t \in Threads :
        (/\ OnlyCaller(t)
         /\ call[t].op = "set_header"
         /\ call[t].status = "raised"
         /\ call[t].ret = <<"Header must be HEX">>)
        => header = call[t].header0

=============================================================================
